---- MODULE Spec2Model ----
(***************************************************************************)
(* State-machine model of cdot's EnsemblTarkDataProvider                   *)
(* (cdot/hgvs/dataproviders/ensembl_tark_data_provider.py).                *)
(*                                                                         *)
(* Python strings that the code takes apart (transcript accessions, UTR    *)
(* sequences, cigar strings) are sequences of one-character strings.       *)
(* Python None is NoneVal, an optional value v is Some(v).  A raised       *)
(* exception is an outcome whose exc field is the exception class name.    *)
(***************************************************************************)
EXTENDS Integers, Sequences, FiniteSets, TLC

\* ------------------------------------------------------------------ bounds

\* Most remote fetches a behaviour of Spec issues.
MaxFetches == 2

\* Most exons of a generated transcript record (SpecPure).
MaxExons == 2

\* Largest genomic coordinate of a generated exon (SpecPure).
MaxCoord == 2

\* Longest generated UTR sequence (SpecPure).
MaxUtrLen == 1

\* Longest generated per-build record list handed to the contig resolver.
MaxRecords == 2

\* ------------------------------------------------------- python primitives

NoneVal == [isNone |-> TRUE]

Some(v) == [isNone |-> FALSE, v |-> v]

\* Outcome of a call: a return value or a raised exception.
Return(v) == [exc |-> "", msg |-> "", ret |-> v]

Raise(cls, m) == [exc |-> cls, msg |-> m, ret |-> NoneVal]

Raised(o) == o.exc # ""

Digits == <<"0", "1", "2", "3", "4", "5", "6", "7", "8", "9">>

DigitChars == {Digits[i] : i \in 1..10}

DigitVal(c) == (CHOOSE i \in 1..10 : Digits[i] = c) - 1

\* str(n) for a non-negative integer: its decimal digits.
RECURSIVE NatToStr(_)
NatToStr(n) ==
    IF n < 10 THEN <<Digits[n + 1]>>
    ELSE NatToStr(n \div 10) \o <<Digits[(n % 10) + 1]>>

\* str(n) for an integer.
IntToStr(n) == IF n < 0 THEN <<"-">> \o NatToStr(0 - n) ELSE NatToStr(n)

\* value of a string of decimal digits
RECURSIVE DigitsToNat(_)
DigitsToNat(s) ==
    IF s = <<>> THEN 0
    ELSE 10 * DigitsToNat(SubSeq(s, 1, Len(s) - 1)) + DigitVal(s[Len(s)])

\* int(s): accepts a non-empty string of decimal digits; anything else is
\* the ValueError int() raises.
ParseInt(s) ==
    IF s # <<>> /\ \A i \in 1..Len(s) : s[i] \in DigitChars
    THEN Return(DigitsToNat(s))
    ELSE Raise("ValueError", "invalid literal for int()")

\* s.split("."): the maximal runs of characters between the dots.
RECURSIVE SplitDot(_)
SplitDot(s) ==
    IF \A i \in 1..Len(s) : s[i] # "."
    THEN <<s>>
    ELSE LET d == CHOOSE i \in 1..Len(s) :
                     s[i] = "." /\ \A j \in 1..(i - 1) : s[j] # "."
         IN <<SubSeq(s, 1, d - 1)>> \o SplitDot(SubSeq(s, d + 1, Len(s)))

\* sum of a sequence of integers
RECURSIVE SumSeq(_)
SumSeq(s) == IF s = <<>> THEN 0 ELSE s[1] + SumSeq(Tail(s))

\* ------------------------------------------------------ provider constants

NCBI_ALN_METHOD == "splign"

DefaultAssemblies == <<"GRCh37", "GRCh38">>

\* get_ac_name_map(assembly_name): contig accession -> sequence name.
get_ac_name_map(assembly_name) ==
    IF assembly_name = "GRCh37" THEN [c \in {"NC_000001.10"} |-> "1"]
    ELSE IF assembly_name = "GRCh38" THEN [c \in {"CM000663.2", "NC_000001.11"} |-> "1"]
    ELSE [c \in {} |-> "1"]

\* __init__, lines 42-44: the contig -> assembly index; a later assembly's
\* update() overwrites an earlier one's entry for the same contig.
RECURSIVE BuildAssemblyByContig(_, _)
BuildAssemblyByContig(assemblies, maps) ==
    IF assemblies = <<>> THEN [c \in {} |-> ""]
    ELSE LET n     == Len(assemblies)
             name  == assemblies[n]
             prior == BuildAssemblyByContig(SubSeq(assemblies, 1, n - 1), maps)
         IN [c \in (DOMAIN prior) \cup (DOMAIN maps[name]) |->
                IF c \in DOMAIN maps[name] THEN name ELSE prior[c]]

\* ------------------------------------------------------- _get_from_url

\* 'application/json' in response.headers.get('Content-Type')
JsonContentTypes == {"application/json", "application/json; charset=utf-8"}

\* _get_from_url(url), given the response requests.get(url) produced.
\* A response that is not ok leaves data = None.
GetFromUrl(response) ==
    IF response.ok
    THEN IF response.content_type.isNone
         THEN Raise("TypeError", "argument of type 'NoneType' is not iterable")
         ELSE IF response.content_type.v \in JsonContentTypes
              THEN Return(Some(response.json))
              ELSE Raise("ValueError", "Non-json response received")
    ELSE Return(NoneVal)

\* ---------------------------------------- _get_transcript_id_and_version

GetTranscriptIdAndVersion(transcript_accession) ==
    LET parts == SplitDot(transcript_accession)
    IN IF Len(parts) = 2
       THEN LET version == ParseInt(parts[2])
            IN IF Raised(version) THEN version
               ELSE Return([identifier |-> parts[1], version |-> Some(version.ret)])
       ELSE Return([identifier |-> transcript_accession, version |-> NoneVal])

\* ------------------------------------------------ _get_transcript_results

\* the query parameters the url is built from (lines 75-80)
BuildUrl(stable_id, version) ==
    [stable_id |-> stable_id, stable_id_version |-> version, expand_all |-> "true"]

\* line 29: self.transcript_results = {}
EmptyCache == [k \in {} |-> <<>>]

\* line 70: tx_ac in self.transcript_results
CacheHas(cache, tx_ac) == tx_ac \in DOMAIN cache

\* the results stored under the stable id instead of the accession given
StoreResultsByStableId(cache, tx_ac, results) ==
    LET key == GetTranscriptIdAndVersion(tx_ac).ret.identifier
    IN [k \in (DOMAIN cache) \cup {key} |-> IF k = key THEN results ELSE cache[k]]

\* line 84: self.transcript_results[tx_ac] = results
StoreResults(cache, tx_ac, results) ==
    [k \in (DOMAIN cache) \cup {tx_ac} |-> IF k = tx_ac THEN results ELSE cache[k]]

\* result of a provider method: its outcome, the cache it leaves, and the
\* urls it fetched with the responses it got
Step(out, cache, fetched, responses) ==
    [out |-> out, cache |-> cache, fetched |-> fetched, responses |-> responses]

\* _get_transcript_results(tx_ac); response is what the remote answers if
\* the method gets as far as fetching.
GetTranscriptResults(cache, tx_ac, response) ==
    IF CacheHas(cache, tx_ac)
    THEN Step(Return(cache[tx_ac]), cache, <<>>, <<>>)
    ELSE
      LET idv == GetTranscriptIdAndVersion(tx_ac)
      IN IF Raised(idv) THEN Step(idv, cache, <<>>, <<>>)
         ELSE
           LET url  == BuildUrl(idv.ret.identifier, idv.ret.version)
               got  == GetFromUrl(response)
               data == got.ret
           IN IF Raised(got) THEN Step(got, cache, <<url>>, <<response>>)
              ELSE IF data.isNone
              THEN Step(Raise("TypeError", "'NoneType' object is not subscriptable"),
                        cache, <<url>>, <<response>>)
              ELSE IF "results" \notin DOMAIN data.v
              THEN Step(Raise("KeyError", "'results'"), cache, <<url>>, <<response>>)
              ELSE LET results == data.v.results
                   IN IF results # <<>> /\ Len(results) >= 1
                      THEN Step(Return(results), StoreResults(cache, tx_ac, results),
                                <<url>>, <<response>>)
                      ELSE Step(Raise("HGVSDataNotAvailableError", "did not contain 'results'"),
                                cache, <<url>>, <<response>>)

\* --------------------------------------------- _get_transcript_for_contig

\* the first transcript of the list whose assembly is the given one, or None
RECURSIVE FirstForAssembly(_, _)
FirstForAssembly(transcript_results, assembly) ==
    IF transcript_results = <<>> THEN NoneVal
    ELSE IF transcript_results[1].assembly.assembly_name = assembly
         THEN Some(transcript_results[1])
         ELSE FirstForAssembly(Tail(transcript_results), assembly)

\* the resolver returning the last matching transcript instead of the first
GetTranscriptForContigLastMatch(by_contig, transcript_results, alt_ac) ==
    IF alt_ac \notin DOMAIN by_contig
    THEN Raise("ValueError", "Contig not supported")
    ELSE LET n == Len(transcript_results)
             reversed == [i \in 1..n |-> transcript_results[n + 1 - i]]
         IN Return(FirstForAssembly(reversed, by_contig[alt_ac]))

GetTranscriptForContig(by_contig, transcript_results, alt_ac) ==
    IF alt_ac \notin DOMAIN by_contig
    THEN Raise("ValueError", "Contig not supported")
    ELSE Return(FirstForAssembly(transcript_results, by_contig[alt_ac]))

\* ----------------------------------------------------- _get_cds_start_end

\* truth value of an optional string: None and "" are false
Truthy(s) == ~s.isNone /\ s.v # <<>>

ExonLengths(exons) == [i \in 1..Len(exons) |-> exons[i].loc_end - exons[i].loc_start + 1]

\* the calculator summing loc_end - loc_start without the + 1
GetCdsStartEndExclusive(transcript) ==
    LET three_prime_utr_seq == transcript.three_prime_utr_seq
        five_prime_utr_seq  == transcript.five_prime_utr_seq
    IN IF Truthy(three_prime_utr_seq) /\ Truthy(five_prime_utr_seq)
       THEN LET sequence_length == SumSeq(ExonLengths(transcript.exons)) - Len(transcript.exons)
            IN [cds_start_i |-> Some(Len(five_prime_utr_seq.v)),
                cds_end_i   |-> Some(sequence_length - Len(three_prime_utr_seq.v))]
       ELSE [cds_start_i |-> NoneVal, cds_end_i |-> NoneVal]

GetCdsStartEnd(transcript) ==
    LET three_prime_utr_seq == transcript.three_prime_utr_seq
        five_prime_utr_seq  == transcript.five_prime_utr_seq
    IN IF Truthy(three_prime_utr_seq) /\ Truthy(five_prime_utr_seq)
       THEN LET sequence_length == SumSeq(ExonLengths(transcript.exons))
            IN [cds_start_i |-> Some(Len(five_prime_utr_seq.v)),
                cds_end_i   |-> Some(sequence_length - Len(three_prime_utr_seq.v))]
       ELSE [cds_start_i |-> NoneVal, cds_end_i |-> NoneVal]

\* --------------------------------------------------- _check_alt_aln_method

\* the gate letting every alignment method through
CheckAltAlnMethodAny(alt_aln_method) == Return(NoneVal)

CheckAltAlnMethod(alt_aln_method) ==
    IF alt_aln_method # NCBI_ALN_METHOD
    THEN Raise("HGVSDataNotAvailableError", "cdot only supports alt_aln_method")
    ELSE Return(NoneVal)

\* ------------------------------------------------------------ get_tx_exons

\* the exon_data with the cigar counting the inclusive span
ExonDataInclusiveCigar(exon, exon_transcript_pos, tx_ac, alt_ac, alt_strand, alt_aln_method) ==
    LET length     == exon.loc_end - exon.loc_start
        tx_start_i == exon_transcript_pos
        tx_end_i   == exon_transcript_pos + length
    IN [tx_ac |-> tx_ac, alt_ac |-> alt_ac, alt_strand |-> alt_strand,
        alt_aln_method |-> alt_aln_method, ord |-> exon.exon_order,
        tx_start_i |-> tx_start_i, tx_end_i |-> tx_end_i,
        alt_start_i |-> exon.loc_start, alt_end_i |-> exon.loc_end,
        cigar |-> IntToStr(length + 1) \o <<"=">>]

\* lines 154-170: the exon_data of one exon at transcript position
\* exon_transcript_pos
ExonData(exon, exon_transcript_pos, tx_ac, alt_ac, alt_strand, alt_aln_method) ==
    LET length     == exon.loc_end - exon.loc_start
        tx_start_i == exon_transcript_pos
        tx_end_i   == exon_transcript_pos + length
    IN [tx_ac |-> tx_ac, alt_ac |-> alt_ac, alt_strand |-> alt_strand,
        alt_aln_method |-> alt_aln_method, ord |-> exon.exon_order,
        tx_start_i |-> tx_start_i, tx_end_i |-> tx_end_i,
        alt_start_i |-> exon.loc_start, alt_end_i |-> exon.loc_end,
        cigar |-> IntToStr(length) \o <<"=">>]

\* lines 151-171: the loop over transcript["exons"].  The loop body never
\* assigns exon_transcript_pos, so every iteration sees the value it had
\* before the loop.
RECURSIVE ExonLoop(_, _, _, _, _, _)
ExonLoop(exons, exon_transcript_pos, tx_ac, alt_ac, alt_strand, alt_aln_method) ==
    IF exons = <<>> THEN <<>>
    ELSE <<ExonData(exons[1], exon_transcript_pos, tx_ac, alt_ac, alt_strand, alt_aln_method)>>
         \o ExonLoop(Tail(exons), exon_transcript_pos, tx_ac, alt_ac, alt_strand, alt_aln_method)

\* lines 146-173, for the transcript the contig resolver selected
MapExons(transcript, tx_ac, alt_ac, alt_aln_method) ==
    ExonLoop(transcript.exons, 0, tx_ac, alt_ac, transcript.loc_strand, alt_aln_method)

GetTxExons(by_contig, cache, tx_ac, alt_ac, alt_aln_method, response) ==
    LET chk == CheckAltAlnMethod(alt_aln_method)
    IN IF Raised(chk) THEN Step(chk, cache, <<>>, <<>>)
       ELSE
         LET res == GetTranscriptResults(cache, tx_ac, response)
         IN IF Raised(res.out) THEN res
            ELSE IF res.out.ret = <<>>
            THEN Step(Return(NoneVal), res.cache, res.fetched, res.responses)
            ELSE
              LET sel == GetTranscriptForContig(by_contig, res.out.ret, alt_ac)
              IN IF Raised(sel) THEN Step(sel, res.cache, res.fetched, res.responses)
                 ELSE IF sel.ret.isNone
                 THEN Step(Raise("TypeError", "'NoneType' object is not subscriptable"),
                           res.cache, res.fetched, res.responses)
                 ELSE Step(Return(Some(MapExons(sel.ret.v, tx_ac, alt_ac, alt_aln_method))),
                           res.cache, res.fetched, res.responses)

\* ------------------------------------------------------------- get_tx_info

\* _get_transcript_info(transcript), transcript possibly None
GetTranscriptInfo(transcript) ==
    IF transcript.isNone
    THEN Raise("TypeError", "'NoneType' object is not subscriptable")
    ELSE IF transcript.v.genes = <<>>
    THEN Raise("IndexError", "list index out of range")
    ELSE LET cds == GetCdsStartEnd(transcript.v)
         IN Return([hgnc |-> transcript.v.genes[1].name,
                    cds_start_i |-> cds.cds_start_i,
                    cds_end_i |-> cds.cds_end_i])

GetTxInfo(by_contig, cache, tx_ac, alt_ac, alt_aln_method, response) ==
    LET chk == CheckAltAlnMethod(alt_aln_method)
    IN IF Raised(chk) THEN Step(chk, cache, <<>>, <<>>)
       ELSE
         LET res == GetTranscriptResults(cache, tx_ac, response)
         IN IF Raised(res.out) THEN res
            ELSE IF res.out.ret = <<>>
            THEN Step(Raise("HGVSDataNotAvailableError", "No tx_info"),
                      res.cache, res.fetched, res.responses)
            ELSE
              LET sel == GetTranscriptForContig(by_contig, res.out.ret, alt_ac)
              IN IF Raised(sel) THEN Step(sel, res.cache, res.fetched, res.responses)
                 ELSE
                   LET info == GetTranscriptInfo(sel.ret)
                   IN IF Raised(info) THEN Step(info, res.cache, res.fetched, res.responses)
                      ELSE Step(Return([hgnc |-> info.ret.hgnc,
                                        cds_start_i |-> info.ret.cds_start_i,
                                        cds_end_i |-> info.ret.cds_end_i,
                                        tx_ac |-> tx_ac, alt_ac |-> alt_ac,
                                        alt_aln_method |-> NCBI_ALN_METHOD]),
                                res.cache, res.fetched, res.responses)

\* ------------------------------------------------------------ input sets

ENST_ID == <<"E", "N", "S", "T", "0", "0", "0", "0", "0", "3", "8", "0", "1", "5", "2">>

\* "ENST00000380152.7"
AcVersioned == ENST_ID \o <<".", "7">>

\* "ENST00000380152"
AcUnversioned == ENST_ID

\* "ENST00000380152.x": a version that is not a number
AcBadVersion == ENST_ID \o <<".", "x">>

Accessions == {AcVersioned, AcUnversioned, AcBadVersion}

\* a GRCh37 contig, a GRCh38 contig and a mouse contig of no human assembly
Contigs == {"NC_000001.10", "CM000663.2", "NC_000067.7"}

AlnMethods == {NCBI_ALN_METHOD, "genewise"}

AssemblyConfigs == {DefaultAssemblies, <<"GRCh38">>}

Exon(loc_start, loc_end, exon_order) ==
    [loc_start |-> loc_start, loc_end |-> loc_end, exon_order |-> exon_order]

Transcript(assembly_name, loc_strand, exons, five, three, genes) ==
    [assembly |-> [assembly_name |-> assembly_name], loc_strand |-> loc_strand,
     exons |-> exons, five_prime_utr_seq |-> five, three_prime_utr_seq |-> three,
     genes |-> genes]

Brca2 == <<[name |-> "BRCA2"]>>

\* the GRCh38 record of ENST00000380152.7 with exons 100-199 and 300-349
Tx38 == Transcript("GRCh38", 1, <<Exon(100, 199, 1), Exon(300, 349, 2)>>,
                   Some(<<"A", "C">>), Some(<<"G">>), Brca2)

\* a GRCh37 record without UTR annotation
Tx37 == Transcript("GRCh37", 1, <<Exon(10, 19, 1)>>, NoneVal, NoneVal, Brca2)

\* a GRCh38 record with no gene attached
Tx38NoGene == Transcript("GRCh38", -1, <<Exon(5, 5, 1)>>, Some(<<"A">>), Some(<<>>), <<>>)

\* result lists the remote archive answers with
RemoteResultLists == {<<Tx38>>, <<Tx37>>, <<Tx37, Tx38NoGene>>}

Response(ok, content_type, json) == [ok |-> ok, content_type |-> content_type, json |-> json]

NotFoundBody == [detail |-> "Not found."]

ResultsBody(results) == [count |-> Len(results), results |-> results]

Responses ==
    {Response(FALSE, Some("application/json"), NotFoundBody),
     Response(TRUE, NoneVal, NotFoundBody),
     Response(TRUE, Some("text/html"), NotFoundBody),
     Response(TRUE, Some("application/json"), NotFoundBody),
     Response(TRUE, Some("application/json"), ResultsBody(<<>>))}
    \cup {Response(TRUE, Some("application/json"), ResultsBody(l)) : l \in RemoteResultLists}

\* sequences over S of length lo..hi
SeqsOf(S, lo, hi) == UNION {[1..n -> S] : n \in lo..hi}

\* generated exons: 1 <= loc_start <= loc_end <= MaxCoord, numbered in order
GenExonLists ==
    LET spans == {<<a, b>> \in (1..MaxCoord) \X (1..MaxCoord) : a <= b}
    IN {[i \in 1..Len(l) |-> Exon(l[i][1], l[i][2], i)] : l \in SeqsOf(spans, 0, MaxExons)}

\* generated UTR sequences: None, "" and runs of up to MaxUtrLen bases
GenUtrs == {NoneVal} \cup {Some([i \in 1..n |-> "A"]) : n \in 0..MaxUtrLen}

\* generated transcript records, for the mapper and the CDS calculator
GenTranscripts ==
    {Transcript(a, 1, e, f, t, Brca2) :
        a \in {"GRCh38"}, e \in GenExonLists, f \in GenUtrs, t \in GenUtrs}

\* generated per-build records, told apart by strand, for the resolver
GenBuildRecords ==
    {Transcript(a, st, <<>>, NoneVal, NoneVal, Brca2) :
        a \in {"GRCh37", "GRCh38", "GRCm39"}, st \in {1, -1}}

GenResultLists ==
    {<<t>> : t \in GenTranscripts} \cup SeqsOf(GenBuildRecords, 1, MaxRecords)
        \cup RemoteResultLists

\* ------------------------------------------------------------------ state

VARIABLES
    assembly_maps,       \* self.assembly_maps
    assembly_by_contig,  \* self.assembly_by_contig
    transcript_results,  \* self.transcript_results, the transcript cache
    nfetch,              \* requests.get calls made so far
    last                 \* the latest call: its arguments, fetches and outcome

vars == <<assembly_maps, assembly_by_contig, transcript_results, nfetch, last>>

Call(op, tx_ac, alt_ac, alt_aln_method, arg, step) ==
    [op |-> op, tx_ac |-> tx_ac, alt_ac |-> alt_ac, alt_aln_method |-> alt_aln_method,
     arg |-> arg, fetched |-> step.fetched, responses |-> step.responses, out |-> step.out]

\* __init__(assemblies): empty cache, the directory built from the assemblies
Construct(assemblies) ==
    LET maps == [n \in {assemblies[i] : i \in 1..Len(assemblies)} |-> get_ac_name_map(n)]
    IN /\ assembly_maps = maps
       /\ assembly_by_contig = BuildAssemblyByContig(assemblies, maps)
       /\ last = Call("__init__", <<>>, "", "", assemblies,
                      Step(Return(NoneVal), <<>>, <<>>, <<>>))

Init ==
    /\ \E assemblies \in AssemblyConfigs : Construct(assemblies)
    /\ transcript_results = EmptyCache
    /\ nfetch = 0

\* a provider whose cache already holds one fetched result list and whose
\* remote answers no further request
InitPure ==
    /\ \E assemblies \in AssemblyConfigs : Construct(assemblies)
    /\ \E results \in GenResultLists :
          transcript_results = StoreResults(EmptyCache, AcVersioned, results)
    /\ nfetch = MaxFetches

\* The responses a call may meet: every response if the call fetches, and a
\* single one (never looked at) if it does not.
AnyResponse == CHOOSE r \in Responses : TRUE

ResponsesFor(probe) == IF probe.fetched = <<>> THEN {AnyResponse} ELSE Responses

get_tx_exons ==
    \E tx_ac \in Accessions, alt_ac \in Contigs, m \in AlnMethods :
      \E response \in ResponsesFor(GetTxExons(assembly_by_contig, transcript_results,
                                              tx_ac, alt_ac, m, AnyResponse)) :
        LET step == GetTxExons(assembly_by_contig, transcript_results, tx_ac, alt_ac, m, response)
        IN /\ nfetch + Len(step.fetched) <= MaxFetches
           /\ nfetch' = nfetch + Len(step.fetched)
           /\ transcript_results' = step.cache
           /\ last' = Call("get_tx_exons", tx_ac, alt_ac, m, <<>>, step)
           /\ UNCHANGED <<assembly_maps, assembly_by_contig>>

get_tx_info ==
    \E tx_ac \in Accessions, alt_ac \in Contigs, m \in AlnMethods :
      \E response \in ResponsesFor(GetTxInfo(assembly_by_contig, transcript_results,
                                             tx_ac, alt_ac, m, AnyResponse)) :
        LET step == GetTxInfo(assembly_by_contig, transcript_results, tx_ac, alt_ac, m, response)
        IN /\ nfetch + Len(step.fetched) <= MaxFetches
           /\ nfetch' = nfetch + Len(step.fetched)
           /\ transcript_results' = step.cache
           /\ last' = Call("get_tx_info", tx_ac, alt_ac, m, <<>>, step)
           /\ UNCHANGED <<assembly_maps, assembly_by_contig>>

get_transcript_results ==
    \E tx_ac \in Accessions :
      \E response \in ResponsesFor(GetTranscriptResults(transcript_results, tx_ac, AnyResponse)) :
        LET step == GetTranscriptResults(transcript_results, tx_ac, response)
        IN /\ nfetch + Len(step.fetched) <= MaxFetches
           /\ nfetch' = nfetch + Len(step.fetched)
           /\ transcript_results' = step.cache
           /\ last' = Call("_get_transcript_results", tx_ac, "", "", <<>>, step)
           /\ UNCHANGED <<assembly_maps, assembly_by_contig>>

get_transcript_for_contig ==
    \E tx_ac \in DOMAIN transcript_results, alt_ac \in Contigs :
        LET records == transcript_results[tx_ac]
            step == Step(GetTranscriptForContig(assembly_by_contig, records, alt_ac),
                         transcript_results, <<>>, <<>>)
        IN /\ last' = Call("_get_transcript_for_contig", <<>>, alt_ac, "", records, step)
           /\ UNCHANGED <<assembly_maps, assembly_by_contig, transcript_results, nfetch>>

get_cds_start_end ==
    \E tx_ac \in DOMAIN transcript_results :
        \E i \in 1..Len(transcript_results[tx_ac]) :
            LET transcript == transcript_results[tx_ac][i]
                step == Step(Return(GetCdsStartEnd(transcript)), transcript_results, <<>>, <<>>)
            IN /\ last' = Call("_get_cds_start_end", <<>>, "", "", <<transcript>>, step)
               /\ UNCHANGED <<assembly_maps, assembly_by_contig, transcript_results, nfetch>>

Next ==
    \/ get_tx_exons
    \/ get_tx_info
    \/ get_transcript_results
    \/ get_transcript_for_contig
    \/ get_cds_start_end

Spec == Init /\ [][Next]_vars

\* With the fetch budget spent no call changes the cache, so a call's result
\* depends on the initial cache and its arguments alone: every state SpecPure
\* can reach under Next is reached by a single call from an initial state.
FirstCall == last.op = "__init__"

NextPure ==
    \/ FirstCall /\ get_tx_exons
    \/ FirstCall /\ get_tx_info
    \/ FirstCall /\ get_transcript_results
    \/ FirstCall /\ get_transcript_for_contig
    \/ FirstCall /\ get_cds_start_end

SpecPure == InitPure /\ [][NextPure]_vars

\* ----------------------------------------------------------- properties

PublicOps == {"get_tx_info", "get_tx_exons"}

\* the latest call was op with the supported alignment method
Supported(call) == call.op \in PublicOps /\ call.alt_aln_method = NCBI_ALN_METHOD

\* spec error kinds, as the exceptions the code raises for them
TranscriptNotFound(out) == out.exc = "HGVSDataNotAvailableError"

UnsupportedAlignmentMethod(out) ==
    out.exc = "HGVSDataNotAvailableError" /\ out.msg = "cdot only supports alt_aln_method"

UnsupportedContig(out) == out.exc = "ValueError" /\ out.msg = "Contig not supported"

\* C1: two consecutive get_tx_info / get_tx_exons calls with identical
\* arguments and the supported method issue one fetch in total: when the
\* first call fetched, its result is stored under the accession and the
\* second call fetches nothing.
C1_IdempotentCaching ==
    [][(/\ Supported(last)
        /\ last.fetched # <<>>
        /\ last'.op = last.op
        /\ last'.tx_ac = last.tx_ac
        /\ last'.alt_ac = last.alt_ac
        /\ last'.alt_aln_method = last.alt_aln_method)
       => (/\ last.tx_ac \in DOMAIN transcript_results
           /\ last'.fetched = <<>>
           /\ nfetch' = nfetch)]_vars

\* C2: a get_tx_info / get_tx_exons call with an alignment method other than
\* the supported one fails with UnsupportedAlignmentMethod, fetches nothing
\* and leaves the transcript cache as it was.
C2_AlignmentMethodGate ==
    [][(last'.op \in PublicOps /\ last'.alt_aln_method # NCBI_ALN_METHOD)
       => (/\ UnsupportedAlignmentMethod(last'.out)
           /\ last'.fetched = <<>>
           /\ nfetch' = nfetch
           /\ transcript_results' = transcript_results)]_vars

\* C2 witness: the gate refused a call for an uncached accession while the
\* cache held other entries
C2_Witness ==
    /\ last.op \in PublicOps
    /\ last.alt_aln_method # NCBI_ALN_METHOD
    /\ UnsupportedAlignmentMethod(last.out)
    /\ last.tx_ac = AcVersioned
    /\ AcVersioned \notin DOMAIN transcript_results
    /\ DOMAIN transcript_results # {}

\* the response carries no usable results collection: a transport status
\* that is not a success, or a JSON body whose results are missing or empty
NoUsableResults(response) ==
    \/ ~response.ok
    \/ /\ ~response.content_type.isNone
       /\ response.content_type.v \in JsonContentTypes
       /\ ("results" \notin DOMAIN response.json \/ response.json.results = <<>>)

\* C3: a cache miss of _get_transcript_results whose fetch yields no usable
\* results collection fails with TranscriptNotFound and no other error.
C3_NoResultsIsTranscriptNotFound ==
    (/\ last.op = "_get_transcript_results"
     /\ last.fetched # <<>>
     /\ NoUsableResults(last.responses[1]))
    => TranscriptNotFound(last.out)

\* no record of the list is aligned against the contig's assembly
NoRecordForContig(records, alt_ac) ==
    \A i \in 1..Len(records) :
        records[i].assembly.assembly_name # assembly_by_contig[alt_ac]

\* C4: get_tx_info with the supported method, for a transcript whose records
\* are available and a supported contig none of them is aligned against,
\* fails with TranscriptNotFound.
C4_InfoNoMatchIsTranscriptNotFound ==
    (/\ Supported(last)
     /\ last.op = "get_tx_info"
     /\ last.tx_ac \in DOMAIN transcript_results
     /\ last.alt_ac \in DOMAIN assembly_by_contig
     /\ NoRecordForContig(transcript_results[last.tx_ac], last.alt_ac))
    => TranscriptNotFound(last.out)

\* the configured assemblies whose directory lists the contig
AssembliesOf(alt_ac) == {a \in DOMAIN assembly_maps : alt_ac \in DOMAIN assembly_maps[a]}

\* positions of the records aligned against the assembly
MatchesOf(records, assembly) ==
    {i \in 1..Len(records) : records[i].assembly.assembly_name = assembly}

\* C5: _get_transcript_for_contig fails with UnsupportedContig for a contig
\* of no configured assembly; otherwise it returns the first record, in list
\* order, whose assembly name is the contig's assembly, and None if no
\* record matches.
C5_ContigResolution ==
    last.op = "_get_transcript_for_contig" =>
        LET records == last.arg
            asms    == AssembliesOf(last.alt_ac)
        IN IF asms = {}
           THEN UnsupportedContig(last.out)
           ELSE LET matches == MatchesOf(records, CHOOSE a \in asms : TRUE)
                IN /\ ~Raised(last.out)
                   /\ IF matches = {}
                      THEN last.out.ret.isNone
                      ELSE /\ ~last.out.ret.isNone
                           /\ \E i \in matches :
                                 /\ \A j \in matches : i <= j
                                 /\ last.out.ret.v = records[i]

\* C5 witness: the GRCh38 record is returned for a GRCh38 contig although it
\* comes second, after a GRCh37 record
C5_Witness ==
    /\ last.op = "_get_transcript_for_contig"
    /\ last.alt_ac = "CM000663.2"
    /\ Len(last.arg) = 2
    /\ last.arg[1].assembly.assembly_name = "GRCh37"
    /\ last.arg[2].assembly.assembly_name = "GRCh38"
    /\ ~Raised(last.out)
    /\ ~last.out.ret.isNone
    /\ last.out.ret.v = last.arg[2]

\* get_tx_exons returned a list of exon alignments
ReturnedExons(call) ==
    /\ call.op = "get_tx_exons"
    /\ ~Raised(call.out)
    /\ ~call.out.ret.isNone

\* the exons of the record get_tx_exons mapped: those of the first cached
\* record aligned against the contig's assembly
SourceExons(call) ==
    LET records == transcript_results[call.tx_ac]
        matches == MatchesOf(records, CHOOSE a \in AssembliesOf(call.alt_ac) : TRUE)
    IN records[CHOOSE i \in matches : \A j \in matches : i <= j].exons

\* C6: the exon alignments of get_tx_exons are one per exon of the record, in
\* the same order, the first starts at transcript offset 0 and each one ends
\* where the next one starts.
C6_CoordinateContiguity ==
    ReturnedExons(last) =>
        LET tx_exons == last.out.ret.v
            exons    == SourceExons(last)
        IN /\ Len(tx_exons) = Len(exons)
           /\ \A i \in 1..Len(exons) :
                 /\ tx_exons[i].ord = exons[i].exon_order
                 /\ tx_exons[i].alt_start_i = exons[i].loc_start
           /\ (tx_exons # <<>> => tx_exons[1].tx_start_i = 0)
           /\ \A i \in 1..(Len(tx_exons) - 1) :
                 tx_exons[i].tx_end_i = tx_exons[i + 1].tx_start_i

\* a decimal numeral without sign or leading zeros
IsNumeral(str) ==
    /\ str # <<>>
    /\ \A i \in 1..Len(str) : str[i] \in DigitChars
    /\ (Len(str) > 1 => str[1] # "0")

\* C7: every exon alignment spans as much of the transcript as of the genome,
\* its genomic offsets are the exon's loc_start and loc_end, and its cigar is
\* the span length in decimal followed by "=".
C7_ExonSpanConsistency ==
    ReturnedExons(last) =>
        LET tx_exons == last.out.ret.v
            exons    == SourceExons(last)
        IN \A i \in 1..Len(tx_exons) :
              LET e     == tx_exons[i]
                  span  == e.tx_end_i - e.tx_start_i
                  cigar == e.cigar
              IN /\ span = e.alt_end_i - e.alt_start_i
                 /\ e.alt_start_i = exons[i].loc_start
                 /\ e.alt_end_i = exons[i].loc_end
                 /\ Len(cigar) >= 2
                 /\ cigar[Len(cigar)] = "="
                 /\ IsNumeral(SubSeq(cigar, 1, Len(cigar) - 1))
                 /\ DigitsToNat(SubSeq(cigar, 1, Len(cigar) - 1)) = span

\* C7 witness: two exons were mapped, one of them to the cigar "99="
C7_Witness ==
    /\ ReturnedExons(last)
    /\ Len(last.out.ret.v) = 2
    /\ last.out.ret.v[1].cigar = <<"9", "9", "=">>
    /\ last.out.ret.v[1].alt_start_i = 100
    /\ last.out.ret.v[1].alt_end_i = 199

\* total exonic length: the sum over the exons of end - start + 1
RECURSIVE TotalExonicLength(_)
TotalExonicLength(exons) ==
    IF exons = <<>> THEN 0
    ELSE (exons[Len(exons)].loc_end - exons[Len(exons)].loc_start + 1)
         + TotalExonicLength(SubSeq(exons, 1, Len(exons) - 1))

\* the UTR sequence is there: neither None nor empty
Present(utr) == ~utr.isNone /\ Len(utr.v) > 0

BothUnknown(cds) == cds.cds_start_i.isNone /\ cds.cds_end_i.isNone

\* C8 as claimed: with both UTR sequences present the boundaries are two
\* integers, start the 5' UTR length and end the total exonic length minus
\* the 3' UTR length, with 0 <= start <= end <= total; with either UTR
\* sequence missing both boundaries are unknown.
C8_CdsBoundaryOrdered ==
    last.op = "_get_cds_start_end" =>
        LET transcript == last.arg[1]
            five  == transcript.five_prime_utr_seq
            three == transcript.three_prime_utr_seq
            total == TotalExonicLength(transcript.exons)
            cds   == last.out.ret
        IN IF Present(five) /\ Present(three)
           THEN /\ ~cds.cds_start_i.isNone
                /\ ~cds.cds_end_i.isNone
                /\ cds.cds_start_i.v = Len(five.v)
                /\ cds.cds_end_i.v = total - Len(three.v)
                /\ 0 <= cds.cds_start_i.v
                /\ cds.cds_start_i.v <= cds.cds_end_i.v
                /\ cds.cds_end_i.v <= total
           ELSE BothUnknown(cds)

\* C8 as amended: with both UTR sequences present and non-empty the
\* boundaries are two integers, start the 5' UTR length and end the total
\* exonic length minus the 3' UTR length, with 0 <= start and end <= total,
\* and start <= end exactly when the two UTR lengths together are at most
\* the total exonic length; with either UTR sequence absent or empty both
\* boundaries are unknown.
C8_CdsBoundary ==
    last.op = "_get_cds_start_end" =>
        LET transcript == last.arg[1]
            five  == transcript.five_prime_utr_seq
            three == transcript.three_prime_utr_seq
            total == TotalExonicLength(transcript.exons)
            cds   == last.out.ret
        IN IF Present(five) /\ Present(three)
           THEN /\ ~cds.cds_start_i.isNone
                /\ ~cds.cds_end_i.isNone
                /\ cds.cds_start_i.v = Len(five.v)
                /\ cds.cds_end_i.v = total - Len(three.v)
                /\ 0 <= cds.cds_start_i.v
                /\ cds.cds_end_i.v <= total
                /\ (cds.cds_start_i.v <= cds.cds_end_i.v
                      <=> Len(five.v) + Len(three.v) <= total)
           ELSE BothUnknown(cds)

\* C8 witness: a record with both UTRs and exons longer than the two
\* together got integer boundaries with start < end
C8_Witness ==
    /\ last.op = "_get_cds_start_end"
    /\ Present(last.arg[1].five_prime_utr_seq)
    /\ Present(last.arg[1].three_prime_utr_seq)
    /\ ~last.out.ret.cds_start_i.isNone
    /\ ~last.out.ret.cds_end_i.isNone
    /\ last.out.ret.cds_start_i.v < last.out.ret.cds_end_i.v

\* C9: get_tx_exons("ENST00000380152.7", "CM000663.2", "splign") on the
\* GRCh38 record with exons 100-199 and 300-349 returns the alignments
\* {tx 0-99, genomic 100-199, "100="} and {tx 100-149, genomic 300-349, "50="}.
C9_EndToEndExample ==
    (/\ last.op = "get_tx_exons"
     /\ last.tx_ac = AcVersioned
     /\ last.alt_ac = "CM000663.2"
     /\ last.alt_aln_method = NCBI_ALN_METHOD
     /\ AcVersioned \in DOMAIN transcript_results
     /\ transcript_results[AcVersioned] = <<Tx38>>)
    => /\ ReturnedExons(last)
       /\ Len(last.out.ret.v) = 2
       /\ LET e1 == last.out.ret.v[1]
              e2 == last.out.ret.v[2]
          IN /\ e1.tx_start_i = 0 /\ e1.tx_end_i = 99
             /\ e1.alt_start_i = 100 /\ e1.alt_end_i = 199
             /\ e1.cigar = <<"1", "0", "0", "=">>
             /\ e2.tx_start_i = 100 /\ e2.tx_end_i = 149
             /\ e2.alt_start_i = 300 /\ e2.alt_end_i = 349
             /\ e2.cigar = <<"5", "0", "=">>

\* the query a lookup of the versioned or the unversioned accession sends
ExpectedUrl(tx_ac) ==
    [stable_id |-> ENST_ID,
     stable_id_version |-> IF tx_ac = AcVersioned THEN Some(7) ELSE NoneVal,
     expand_all |-> "true"]

\* the call looks the accession up in the transcript cache
LooksUp(call) == Supported(call) \/ call.op = "_get_transcript_results"

\* C10: the cache is keyed by the unsplit accession: a lookup of
\* "ENST00000380152.7" or of "ENST00000380152" that is not cached under that
\* very string fetches, whatever is cached under the other form, with a query
\* built from the stable id and the optional version; the list fetched is
\* stored under the string looked up and no other entry changes.
C10_CacheKeyedByAccession ==
    [][(/\ LooksUp(last')
        /\ last'.tx_ac \in {AcVersioned, AcUnversioned}
        /\ last'.tx_ac \notin DOMAIN transcript_results)
       => (/\ last'.fetched = <<ExpectedUrl(last'.tx_ac)>>
           /\ nfetch' = nfetch + 1
           /\ \A k \in DOMAIN transcript_results :
                 /\ k \in DOMAIN transcript_results'
                 /\ transcript_results'[k] = transcript_results[k]
           /\ DOMAIN transcript_results' \subseteq (DOMAIN transcript_results) \cup {last'.tx_ac}
           /\ (last'.tx_ac \in DOMAIN transcript_results'
                 => transcript_results'[last'.tx_ac] = last'.responses[1].json.results)
           /\ (last'.op = "_get_transcript_results" /\ ~Raised(last'.out)
                 => last'.tx_ac \in DOMAIN transcript_results'))]_vars

\* C10 witness: the unversioned accession was fetched while the versioned
\* one was cached, and the two entries hold different lists
C10_Witness ==
    /\ LooksUp(last)
    /\ last.tx_ac = AcUnversioned
    /\ last.fetched = <<ExpectedUrl(AcUnversioned)>>
    /\ AcVersioned \in DOMAIN transcript_results
    /\ AcUnversioned \in DOMAIN transcript_results
    /\ transcript_results[AcVersioned] # transcript_results[AcUnversioned]

====
